---- MODULE Spec2Model ----
(***************************************************************************)
(* Movie ticket booking API (src/main.py, src/schemas.py).                 *)
(*                                                                         *)
(* The store is the five MongoDB collections db["user"], db["session"],    *)
(* db["movie"], db["show"], db["booking"].  Every collection is a sequence *)
(* of documents in insertion order; no handler deletes a document.  Each   *)
(* single store call (find_one, insert, update_one) is atomic; a handler   *)
(* is a sequence of store calls, and the handlers of concurrent HTTP       *)
(* requests interleave between their store calls.  Every handler that      *)
(* makes more than one store call is modelled call by call: one action per *)
(* store round trip, the local computation that follows a call folded into *)
(* the call's action.                                                      *)
(*                                                                         *)
(* req is the pool of HTTP requests: each request is of one endpoint       *)
(* (kind) and carries its position in the handler (pc), its inputs, its    *)
(* locals and, once done, its response.                                    *)
(***************************************************************************)
EXTENDS Naturals, Sequences, FiniteSets, TLC

VARIABLES user, session, movie, show, booking, now, req

vars == <<user, session, movie, show, booking, now, req>>
store == <<user, session, movie, show, booking>>

(***************************************************************************)
(* Bounds of the model.                                                    *)
(***************************************************************************)
NumReqs == 3          \* HTTP requests, of any endpoint, concurrent or not
MaxTicks == 1         \* times the clock jumps by a session lifetime
MaxSeeds == 1         \* POST /admin/seed requests among them

Reqs == 1..NumReqs

(***************************************************************************)
(* Program constants.                                                      *)
(***************************************************************************)
SessionDays == 7      \* timedelta(days=7)
MinRows == 1          \* Show.rows ge
MaxRows == 20         \* Show.rows le
MinCols == 1          \* Show.cols ge
MaxCols == 30         \* Show.cols le
MinPrice == 0         \* Show.price_cents ge
MinDuration == 1      \* Movie.duration_minutes ge

\* The clock counts hours (the offsets of the seeded shows are in hours).
SessionHours == SessionDays * 24

(***************************************************************************)
(* Inputs.                                                                 *)
(***************************************************************************)
Emails == {"a@x.io"}
Names == {"Ann"}
Passwords == {"pw"}
LoginPasswords == {"pw", "wrong"}
SeatLists == {<<>>, <<"A1">>, <<"A2">>, <<"B1">>,
              <<"A1", "A2">>, <<"A2", "B1">>, <<"A1", "A1">>}
NewShowRows == {0, 1, 21}
NewShowCols == {2}
NewShowPrices == {5}
NewShowStarts == {0}
NewMovieTitles == {"New"}
NewMovieDurations == {0, 120}

Range(s) == {s[i] : i \in 1..Len(s)}

\* The catalog and the show defaults of the seed.
SeedTitles == <<"Neon Skies", "Quantum Drift", "Echoes of Orion">>
SeedDefaults ==
    << [screen |-> "A", rows |-> 6, cols |-> 10, price_cents |-> 1299,
        offset_hours |-> 2],
       [screen |-> "B", rows |-> 8, cols |-> 12, price_cents |-> 1499,
        offset_hours |-> 5],
       [screen |-> "C", rows |-> 10, cols |-> 14, price_cents |-> 1799,
        offset_hours |-> 28] >>
NumSeedShows == Len(SeedTitles) * Len(SeedDefaults)

(***************************************************************************)
(* ObjectId.  An id is a collection tag and a serial (unique over the      *)
(* whole store); str(id) is its string form and oid parses a string back,  *)
(* raising 400 "Invalid id" for a string that is no id.                    *)
(***************************************************************************)
Collections == {"user", "session", "movie", "show", "booking"}
\* Serials of the well-formed id strings: enough for every document.
MaxOid == NumSeedShows * (1 + MaxTicks) + NumReqs
OidSpace == [c : Collections, n : 1..MaxOid]
str(id) == id.c \o ToString(id.n)
OidTable == [id \in OidSpace |-> str(id)]
OidStrings == {OidTable[id] : id \in OidSpace}
OidOf == [x \in OidStrings |-> CHOOSE id \in OidSpace : OidTable[id] = x]
ValidOid(id_str) == id_str \in OidStrings
oid(id_str) == OidOf[id_str]
NewId(name, coll) == [c |-> name, n |-> Len(coll) + 1]

\* A query is SelectSeq(collection, filter): the documents that pass the
\* filter, in insertion order; find_one answers the first of them.

hash_password(pw) == "sha256:" \o pw
\* lines 114, 125: the digest of the email and the reading of the clock
Token(email, t) == "sha256:" \o email \o ToString(t)

(***************************************************************************)
(* Seat grid.                                                              *)
(***************************************************************************)
Letters == <<"A", "B", "C", "D", "E", "F", "G", "H", "I", "J",
             "K", "L", "M", "N", "O", "P", "Q", "R", "S", "T">>
row_label(r) == Letters[r + 1]
\* Columns numbered from 0 instead of 1.
seat_id_zero_based(r, c) == row_label(r) \o ToString(c - 1)
seat_id(r, c) == row_label(r) \o ToString(c)
\* A flag that reports every seat as free.
is_booked_never(sid, booked) == FALSE
\* line 197: sid in booked
is_booked(sid, booked) == sid \in booked
\* The identifiers of the largest grid the schema allows, computed once.
SeatIdTable == [r \in 0..(MaxRows - 1), c \in 1..MaxCols |-> seat_id(r, c)]
SeatId(r, c) == SeatIdTable[r, c]
GridSeats(rows, cols) == {SeatId(r, c) : r \in 0..(rows - 1), c \in 1..cols}

(***************************************************************************)
(* Documents.                                                              *)
(***************************************************************************)
User(id, name, email, password_hash) ==
    [_id |-> id, name |-> name, email |-> email, password_hash |-> password_hash]

Session(id, user_id, token, expires_at) ==
    [_id |-> id, user_id |-> user_id, token |-> token, expires_at |-> expires_at]

Movie(id, title) == [_id |-> id, title |-> title]

Show(id, movie_id, start_time, screen, price_cents, rows, cols) ==
    [_id |-> id,
     movie_id |-> movie_id,
     start_time |-> start_time,
     screen |-> screen,
     price_cents |-> price_cents,
     rows |-> rows,
     cols |-> cols,
     seats_booked |-> <<>>]

\* A booking document created in another status.
Booking_cancelled(id, user_id, show_id, seats, amount) ==
    [_id |-> id, user_id |-> user_id, show_id |-> show_id, seats |-> seats,
     amount_cents |-> amount, status |-> "cancelled"]

\* line 223 and the Booking schema: status is not passed and takes its
\* default.
Booking(id, user_id, show_id, seats, amount) ==
    [_id |-> id, user_id |-> user_id, show_id |-> show_id, seats |-> seats,
     amount_cents |-> amount, status |-> "confirmed"]

MovieValid(duration_minutes) == duration_minutes >= MinDuration

ShowValid(price_cents, rows, cols) ==
    /\ price_cents >= MinPrice
    /\ rows >= MinRows /\ rows <= MaxRows
    /\ cols >= MinCols /\ cols <= MaxCols

(***************************************************************************)
(* Startup: auto_seed_if_empty on an empty store creates three movies and, *)
(* for each, three shows (screens A, B, C), at clock 0.                    *)
(***************************************************************************)
SeedMovies ==
    [i \in 1..Len(SeedTitles) |-> Movie([c |-> "movie", n |-> i], SeedTitles[i])]
SeedShows ==
    [k \in 1..NumSeedShows |->
        LET m == ((k - 1) \div Len(SeedDefaults)) + 1
            cfg == SeedDefaults[((k - 1) % Len(SeedDefaults)) + 1]
        IN Show([c |-> "show", n |-> k], str([c |-> "movie", n |-> m]),
                cfg.offset_hours, cfg.screen, cfg.price_cents,
                cfg.rows, cfg.cols)]

\* Requests address the first seeded show, the first show created after
\* startup (unknown until then), and a string that is no id.
ShowIdInputs == {"show1", "show10"}
BadIdInputs == {"not-an-id"}
BookingInputs ==
    [show_id : ShowIdInputs, seats : SeatLists]
    \cup [show_id : BadIdInputs, seats : {<<"A1">>}]
MovieIdInputs == {"movie1"}
ShowMovieInputs == MovieIdInputs \cup {"movie9"} \cup BadIdInputs
\* Authorization headers, as their parts between single spaces; <<>> is a
\* request without the header.
AuthInputs ==
    {<<>>, <<"Bearer">>}
    \cup {<<"Basic", Token(e, 0)>> : e \in Emails}
    \cup {<<"Bearer", Token(e, 0), "extra">> : e \in Emails}
    \cup {<<"Bearer", Token(e, t)>> : e \in Emails, t \in {0, SessionHours}}

AuthKinds == {"create_movie", "create_show", "create_booking", "seed_demo"}

IdleReq ==
    [kind |-> "", pc |-> "idle",
     email |-> "", name |-> "", password |-> "",      \* register, login
     token |-> "", expires_at |-> 0,                  \* token, session expiry
     user_id |-> "",                                  \* the user found
     movie_id |-> "",                                 \* create_show
     show_id |-> "", seats |-> <<>>, amount |-> 0,    \* create_booking
     t |-> 0,                                         \* a reading of the clock
     i |-> 0, ids |-> <<>>, created |-> 0,            \* seed_demo
     rows |-> 0, cols |-> 0, layout |-> <<>>,         \* get_seats response
     id |-> "", status |-> 0, detail |-> ""]          \* response

Init ==
    /\ user = <<>>
    /\ session = <<>>
    /\ movie = SeedMovies
    /\ show = SeedShows
    /\ booking = <<>>
    /\ now = 0
    /\ req = [r \in Reqs |-> IdleReq]

\* A request starts when the earlier ones have: requests are numbered in
\* the order in which they arrive.
Arrives(r) ==
    /\ req[r].pc = "idle"
    /\ \A q \in Reqs : q < r => req[q].pc # "idle"

\* A handler that starts over when it meets a seat conflict.
Done_retry(r, status, detail) ==
    [req EXCEPT ![r].pc = IF status = 400 /\ detail # "Invalid id"
                          THEN "check" ELSE "done",
                ![r].status = status, ![r].detail = detail]

\* The handler returns or raises: the response is kept, with the inputs of
\* the request; the locals that are no part of the response are gone (the
\* token of a registration or a login is in its response).
Done(r, status, detail) ==
    [req EXCEPT ![r].pc = "done", ![r].status = status, ![r].detail = detail,
                ![r].t = 0, ![r].expires_at = 0, ![r].i = 0, ![r].ids = <<>>,
                ![r].token = IF req[r].kind \in {"register", "login"}
                             THEN @ ELSE ""]

\* The clock advances by one session lifetime.
Tick ==
    /\ now < MaxTicks * SessionHours
    /\ now' = now + SessionHours
    /\ UNCHANGED <<store, req>>

(***************************************************************************)
(* get_current_user (lines 60-70), the dependency of POST /movies,         *)
(* POST /shows, POST /bookings and POST /admin/seed.  The header is        *)
(* examined and the clock is read for the filter (line 64, now_utc() is an *)
(* argument of the query) before the query is sent; the session lookup     *)
(* (line 64) and the user lookup (line 67) are two store calls.            *)
(***************************************************************************)
\* line 61: authorization.startswith("Bearer ")
startswith_bearer(authorization) ==
    Len(authorization) >= 2 /\ authorization[1] = "Bearer"

RECURSIVE join(_)
join(parts) ==
    IF Len(parts) = 1 THEN parts[1]
    ELSE parts[1] \o " " \o join(Tail(parts))

\* line 63: authorization.split(" ", 1)[1], everything after the first space
token_of(authorization) == join(Tail(authorization))

\* line 64: find_one({"token": token, "expires_at": {"$gt": t}}), t the clock
\* as it was read when the filter was built
session_lookup(token, t) ==
    LET sessions == SelectSeq(session,
                        LAMBDA s : s.token = token /\ s.expires_at > t)
    IN IF sessions = <<>>
       THEN [status |-> 401, detail |-> "Invalid/expired token", user_id |-> ""]
       ELSE [status |-> 200, detail |-> "", user_id |-> sessions[1].user_id]

\* lines 67-70
user_lookup(user_id) ==
    IF ~ValidOid(user_id)
    THEN [status |-> 400, detail |-> "Invalid id", user_id |-> ""]
    ELSE LET users == SelectSeq(user, LAMBDA u : u._id = oid(user_id))
         IN IF users = <<>>
            THEN [status |-> 401, detail |-> "User not found", user_id |-> ""]
            ELSE [status |-> 200, detail |-> "", user_id |-> str(users[1]._id)]

\* lines 61-64, up to the query: a request for an endpoint that depends on
\* get_current_user arrives, its header is examined and the filter of the
\* session query is built from the token and the clock.
get_current_user_header(r, kind, authorization) ==
    /\ Arrives(r)
    /\ kind = "seed_demo" =>
          Cardinality({q \in Reqs : req[q].kind = "seed_demo"}) < MaxSeeds
    /\ req' = IF authorization = <<>> \/ ~startswith_bearer(authorization)
              THEN [Done(r, 401, "Missing auth token") EXCEPT ![r].kind = kind]
              ELSE [req EXCEPT ![r].kind = kind, ![r].pc = "auth_session",
                               ![r].token = token_of(authorization),
                               ![r].t = now]
    /\ UNCHANGED <<store, now>>

\* lines 64-66: the session lookup, with the filter built before.
get_current_user_session(r) ==
    /\ req[r].pc = "auth_session"
    /\ LET auth == session_lookup(req[r].token, req[r].t)
       IN req' = IF auth.status = 200
                 THEN [req EXCEPT ![r].pc = "auth_user",
                                  ![r].user_id = auth.user_id]
                 ELSE Done(r, auth.status, auth.detail)
    /\ UNCHANGED <<store, now>>

\* The user lookup; when it passes, the handler is entered with its payload.
get_current_user_user(r) ==
    /\ req[r].pc = "auth_user"
    /\ LET auth == user_lookup(req[r].user_id)
           found == [req EXCEPT ![r].user_id = auth.user_id]
       IN IF auth.status # 200
          THEN req' = Done(r, auth.status, auth.detail)
          ELSE IF req[r].kind = "create_booking"
          THEN \E payload \in BookingInputs :
                  req' = [found EXCEPT ![r].pc = "check",
                                       ![r].show_id = payload.show_id,
                                       ![r].seats = payload.seats]
          ELSE IF req[r].kind = "create_show"
          THEN \E m \in ShowMovieInputs :
                  req' = [found EXCEPT ![r].pc = "show_movie", ![r].movie_id = m]
          ELSE IF req[r].kind = "create_movie"
          THEN req' = [found EXCEPT ![r].pc = "movie_insert"]
          ELSE req' = [found EXCEPT ![r].pc = "seed_movie", ![r].i = 1]
    /\ UNCHANGED <<store, now>>

(***************************************************************************)
(* POST /auth/register: the lookup by email (line 109), the insert of the  *)
(* user (line 113) and the insert of the session (line 116).  Between the  *)
(* two inserts the handler reads the clock twice: once for the token       *)
(* (line 114) and once for the expiry (line 115).                          *)
(* create_document inserts the document it is given.                       *)
(***************************************************************************)
\* lines 109-111
register_find(r, name, email, password) ==
    /\ Arrives(r)
    /\ LET existing == SelectSeq(user, LAMBDA u : u.email = email)
           arrived == [req EXCEPT ![r].kind = "register", ![r].name = name,
                                  ![r].email = email, ![r].password = password]
       IN req' = IF existing # <<>>
                 THEN [arrived EXCEPT ![r].pc = "done", ![r].status = 409,
                                      ![r].detail = "Email already registered"]
                 ELSE [arrived EXCEPT ![r].pc = "register_user"]
    /\ UNCHANGED <<store, now>>

\* lines 112-113
register_insert_user(r) ==
    /\ req[r].pc = "register_user"
    /\ LET user_id == NewId("user", user)
       IN /\ user' = Append(user, User(user_id, req[r].name, req[r].email,
                                       hash_password(req[r].password)))
          /\ req' = [req EXCEPT ![r].pc = "register_token",
                                ![r].user_id = str(user_id)]
    /\ UNCHANGED <<session, movie, show, booking, now>>

\* line 114: the token, from the email and a reading of the clock
register_token(r) ==
    /\ req[r].pc = "register_token"
    /\ req' = [req EXCEPT ![r].pc = "register_expires",
                          ![r].token = Token(req[r].email, now)]
    /\ UNCHANGED <<store, now>>

\* line 115: the expiry, from another reading of the clock
register_expires(r) ==
    /\ req[r].pc = "register_expires"
    /\ req' = [req EXCEPT ![r].pc = "register_session",
                          ![r].expires_at = now + SessionHours]
    /\ UNCHANGED <<store, now>>

\* lines 116-117
register_insert_session(r) ==
    /\ req[r].pc = "register_session"
    /\ session' = Append(session,
                         Session(NewId("session", session), req[r].user_id,
                                 req[r].token, req[r].expires_at))
    /\ req' = Done(r, 200, "")
    /\ UNCHANGED <<user, movie, show, booking, now>>

(***************************************************************************)
(* POST /auth/login: the lookup by email (line 122), a reading of the      *)
(* clock for the token (line 125), another for the expiry (line 126), and  *)
(* the insert of the new session (line 127).                               *)
(***************************************************************************)
\* lines 122-124
login_find(r, email, password) ==
    /\ Arrives(r)
    /\ LET users == SelectSeq(user, LAMBDA u : u.email = email)
           arrived == [req EXCEPT ![r].kind = "login", ![r].email = email,
                                  ![r].password = password]
       IN req' = IF users = <<>>
                    \/ users[1].password_hash # hash_password(password)
                 THEN [arrived EXCEPT ![r].pc = "done", ![r].status = 401,
                                      ![r].detail = "Invalid credentials"]
                 ELSE [arrived EXCEPT ![r].pc = "login_token",
                                      ![r].user_id = str(users[1]._id),
                                      ![r].name = users[1].name]
    /\ UNCHANGED <<store, now>>

\* line 125
login_token(r) ==
    /\ req[r].pc = "login_token"
    /\ req' = [req EXCEPT ![r].pc = "login_expires",
                          ![r].token = Token(req[r].email, now)]
    /\ UNCHANGED <<store, now>>

\* line 126
login_expires(r) ==
    /\ req[r].pc = "login_expires"
    /\ req' = [req EXCEPT ![r].pc = "login_session",
                          ![r].expires_at = now + SessionHours]
    /\ UNCHANGED <<store, now>>

\* lines 127-128
login_insert_session(r) ==
    /\ req[r].pc = "login_session"
    /\ session' = Append(session,
                         Session(NewId("session", session), req[r].user_id,
                                 req[r].token, req[r].expires_at))
    /\ req' = Done(r, 200, "")
    /\ UNCHANGED <<user, movie, show, booking, now>>

(***************************************************************************)
(* POST /movies (lines 141-145).  Building the Movie document validates    *)
(* the schema's bound; a document that fails it is not inserted.           *)
(***************************************************************************)
create_movie_insert(r) ==
    /\ req[r].pc = "movie_insert"
    /\ \E title \in NewMovieTitles, duration_minutes \in NewMovieDurations :
          LET mid == NewId("movie", movie)
          IN IF MovieValid(duration_minutes)
             THEN /\ movie' = Append(movie, Movie(mid, title))
                  /\ req' = [Done(r, 200, "") EXCEPT ![r].id = str(mid)]
             ELSE /\ movie' = movie
                  /\ req' = Done(r, 500, "Internal Server Error")
    /\ UNCHANGED <<user, session, show, booking, now>>

(***************************************************************************)
(* POST /shows (lines 164-172): the movie lookup (line 167), then the      *)
(* Show document is built, which validates the schema's bounds, and        *)
(* inserted (lines 170-171).                                               *)
(***************************************************************************)
create_show_movie(r) ==
    /\ req[r].pc = "show_movie"
    /\ req' =
         IF ~ValidOid(req[r].movie_id) THEN Done(r, 400, "Invalid id")
         ELSE IF SelectSeq(movie, LAMBDA m : m._id = oid(req[r].movie_id)) = <<>>
         THEN Done(r, 404, "Movie not found")
         ELSE [req EXCEPT ![r].pc = "show_insert"]
    /\ UNCHANGED <<store, now>>

create_show_insert(r) ==
    /\ req[r].pc = "show_insert"
    /\ \E start_time \in NewShowStarts, price_cents \in NewShowPrices,
          rows \in NewShowRows, cols \in NewShowCols :
          LET sid == NewId("show", show)
          IN IF ShowValid(price_cents, rows, cols)
             THEN /\ show' = Append(show, Show(sid, req[r].movie_id, start_time,
                                               "X", price_cents, rows, cols))
                  /\ req' = [Done(r, 200, "") EXCEPT ![r].id = str(sid)]
             ELSE /\ show' = show
                  /\ req' = Done(r, 500, "Internal Server Error")
    /\ UNCHANGED <<user, session, movie, booking, now>>

(***************************************************************************)
(* POST /bookings (lines 212-227), after get_current_user.                 *)
(***************************************************************************)
\* A lookup whose filter is ignored: the first show document of the store.
find_show_any(show_id) == show

\* line 214: db["show"].find_one({"_id": oid(payload.show_id)})
find_show(show_id) == SelectSeq(show, LAMBDA s : s._id = oid(show_id))

\* A check that looks at the first submitted seat only.
first_conflict_head_only(seats, seats_booked) ==
    IF seats # <<>> /\ seats[1] \in Range(seats_booked) THEN 1 ELSE 0

\* A check that reports the last booked seat of the submitted list.
first_conflict_last(seats, seats_booked) ==
    LET hits == {i \in 1..Len(seats) : seats[i] \in Range(seats_booked)}
    IN IF hits = {} THEN 0
       ELSE CHOOSE i \in hits : \A j \in hits : i >= j

\* lines 218-221: the first position of the submitted list whose seat is in
\* the booked set that was read; 0 when there is none.
first_conflict(seats, seats_booked) ==
    LET hits == {i \in 1..Len(seats) : seats[i] \in Range(seats_booked)}
    IN IF hits = {} THEN 0
       ELSE CHOOSE i \in hits : \A j \in hits : i <= j

\* An amount that does not count the seats.
amount_cents_flat(seats, sh) == sh.price_cents

\* line 222
amount_cents(seats, sh) == Len(seats) * sh.price_cents

\* An update that adds the first submitted seat only.
addToSet_first(array, each) ==
    IF each = <<>> \/ Head(each) \in Range(array) THEN array
    ELSE Append(array, Head(each))

\* An update that appends every submitted value ($push).
addToSet_push(array, each) == array \o each

\* $addToSet with $each: every value not yet in the array is appended, once,
\* in the order given.
RECURSIVE addToSet(_, _)
addToSet(array, each) ==
    IF each = <<>> THEN array
    ELSE addToSet(IF Head(each) \in Range(array) THEN array
                  ELSE Append(array, Head(each)),
                  Tail(each))

\* An update that replaces the array ($set) instead of adding to it.
update_one_set(coll, id, each) ==
    [k \in 1..Len(coll) |->
        IF coll[k]._id = id THEN [coll[k] EXCEPT !.seats_booked = each]
        ELSE coll[k]]

\* An update whose filter matches every show (update_many, no filter).
update_one_every(coll, id, each) ==
    [k \in 1..Len(coll) |-> [coll[k] EXCEPT !.seats_booked = addToSet(@, each)]]

\* line 226: update_one changes the first document the filter matches.
update_one_seats(coll, id, each) ==
    LET hits == {i \in 1..Len(coll) : coll[i]._id = id}
    IN IF hits = {} THEN coll
       ELSE LET k == CHOOSE i \in hits : \A j \in hits : i <= j
            IN [coll EXCEPT ![k].seats_booked = addToSet(@, each)]

\* lines 214-222: read the show, check the seats against what was read,
\* compute the amount.
create_booking_check(r) ==
    /\ req[r].pc = "check"
    /\ req' =
         IF ~ValidOid(req[r].show_id) THEN Done(r, 400, "Invalid id")
         ELSE LET shows == find_show(req[r].show_id)
              IN IF shows = <<>> THEN Done(r, 404, "Show not found")
                 ELSE LET k == first_conflict(req[r].seats, shows[1].seats_booked)
                      IN IF k # 0
                         THEN Done(r, 400, "Seat " \o req[r].seats[k]
                                            \o " already booked")
                         ELSE [req EXCEPT ![r].pc = "insert",
                                 ![r].amount = amount_cents(req[r].seats, shows[1])]
    /\ UNCHANGED <<store, now>>

\* lines 223-224: create_document("booking", booking)
create_booking_insert(r) ==
    /\ req[r].pc = "insert"
    /\ LET bid == NewId("booking", booking)
       IN /\ booking' = Append(booking,
                               Booking(bid, req[r].user_id, req[r].show_id,
                                       req[r].seats, req[r].amount))
          /\ req' = [req EXCEPT ![r].pc = "update", ![r].id = str(bid)]
    /\ UNCHANGED <<user, session, movie, show, now>>

\* lines 226-227: the seat update, then the response.
create_booking_update(r) ==
    /\ req[r].pc = "update"
    /\ show' = update_one_seats(show, oid(req[r].show_id), req[r].seats)
    /\ req' = Done(r, 200, "confirmed")
    /\ UNCHANGED <<user, session, movie, booking, now>>

(***************************************************************************)
(* POST /admin/seed (lines 245-329), after get_current_user: for each      *)
(* title of the catalog a lookup by title and, when there is no such       *)
(* movie, an insert; then the clock is read (a step of its own, line 300)  *)
(* and, for each movie and each                                            *)
(* default, a lookup of a show of that movie on that screen at that hour   *)
(* and, when there is none, an insert.  One store call per step.           *)
(***************************************************************************)
seed_demo_step(r) ==
    /\ req[r].pc \in {"seed_movie", "seed_movie_insert", "seed_clock",
                      "seed_show", "seed_show_insert"}
    /\ LET pc == req[r].pc
           i == req[r].i
           \* the movie loop, lines 290-298
           existing == SelectSeq(movie, LAMBDA m : m.title = SeedTitles[i])
           mid == NewId("movie", movie)
           ids == IF pc = "seed_movie" /\ existing # <<>>
                  THEN Append(req[r].ids, str(existing[1]._id))
                  ELSE Append(req[r].ids, str(mid))
           after_movie ==
               IF i < Len(SeedTitles)
               THEN [req EXCEPT ![r].pc = "seed_movie", ![r].i = i + 1,
                                ![r].ids = ids]
               ELSE [req EXCEPT ![r].pc = "seed_clock", ![r].ids = ids]
           \* the show loop, lines 307-327
           m == req[r].ids[((i - 1) \div Len(SeedDefaults)) + 1]
           cfg == SeedDefaults[((i - 1) % Len(SeedDefaults)) + 1]
           start_time == req[r].t + cfg.offset_hours
           exists ==
               SelectSeq(show, LAMBDA s :
                   /\ s.movie_id = m
                   /\ s.start_time * 60 + 1 >= start_time * 60
                   /\ s.start_time * 60 <= start_time * 60 + 1
                   /\ s.screen = cfg.screen)
           after_show(created) ==
               IF i < NumSeedShows
               THEN [req EXCEPT ![r].pc = "seed_show", ![r].i = i + 1,
                                ![r].created = created]
               ELSE [Done(r, 200, "") EXCEPT ![r].created = created]
       IN /\ movie' = IF pc = "seed_movie_insert"
                      THEN Append(movie, Movie(mid, SeedTitles[i]))
                      ELSE movie
          /\ show' = IF pc = "seed_show_insert"
                     THEN Append(show, Show(NewId("show", show), m, start_time,
                                            cfg.screen, cfg.price_cents,
                                            cfg.rows, cfg.cols))
                     ELSE show
          /\ req' = IF pc = "seed_movie"
                    THEN IF existing # <<>> THEN after_movie
                         ELSE [req EXCEPT ![r].pc = "seed_movie_insert"]
                    ELSE IF pc = "seed_movie_insert" THEN after_movie
                    ELSE IF pc = "seed_clock"     \* line 300
                    THEN [req EXCEPT ![r].pc = "seed_show", ![r].i = 1,
                                     ![r].t = now]
                    ELSE IF pc = "seed_show"
                    THEN IF exists # <<>> THEN after_show(req[r].created)
                         ELSE [req EXCEPT ![r].pc = "seed_show_insert"]
                    ELSE after_show(req[r].created + 1)
    /\ UNCHANGED <<user, session, booking, now>>

(***************************************************************************)
(* GET /shows/{show_id}/seats (lines 184-199): one store call; the         *)
(* response is kept in the request.                                        *)
(***************************************************************************)
get_seats(show_id) ==
    IF ~ValidOid(show_id)
    THEN [status |-> 400, rows |-> 0, cols |-> 0, layout |-> <<>>]
    ELSE LET shows == find_show(show_id)
         IN IF shows = <<>>
            THEN [status |-> 404, rows |-> 0, cols |-> 0, layout |-> <<>>]
            ELSE LET sh == shows[1]
                     booked == Range(sh.seats_booked)
                 IN [status |-> 200, rows |-> sh.rows, cols |-> sh.cols,
                     layout |->
                       [r \in 1..sh.rows |->
                          [row |-> row_label(r - 1),
                           seats |->
                             [c \in 1..sh.cols |->
                                [id |-> SeatId(r - 1, c),
                                 booked |-> is_booked(SeatId(r - 1, c), booked)]]]]]

get_seats_call(r, show_id) ==
    /\ Arrives(r)
    /\ LET res == get_seats(show_id)
       IN req' = [req EXCEPT ![r].kind = "get_seats", ![r].pc = "done",
                             ![r].show_id = show_id,
                             ![r].status = res.status,
                             ![r].rows = res.rows, ![r].cols = res.cols,
                             ![r].layout = res.layout]
    /\ UNCHANGED <<store, now>>

(***************************************************************************)
(* The other reads: one store call each, the response a function of the    *)
(* store.  Their responses are not kept.                                   *)
(***************************************************************************)
\* d["id"] = str(d.pop("_id")): the document with its _id replaced by the
\* string form, under the name id.
with_id(d) ==
    [k \in (DOMAIN d \ {"_id"}) \cup {"id"} |->
        IF k = "id" THEN str(d._id) ELSE d[k]]

\* GET /bookings/{booking_id}
get_booking(booking_id) ==
    IF ~ValidOid(booking_id) THEN [status |-> 400, body |-> <<>>]
    ELSE LET bs == SelectSeq(booking, LAMBDA b : b._id = oid(booking_id))
         IN IF bs = <<>> THEN [status |-> 404, body |-> <<>>]
            ELSE [status |-> 200, body |-> <<with_id(bs[1])>>]

\* GET /shows: every show, or the shows of one movie
list_shows(movie_id) ==
    LET shows == SelectSeq(show,
                     LAMBDA s : movie_id = "" \/ s.movie_id = movie_id)
    IN [k \in 1..Len(shows) |-> with_id(shows[k])]

\* GET /movies
list_movies == [k \in 1..Len(movie) |-> with_id(movie[k])]

ReadOnly ==
    /\ \/ \E b \in {"booking1"} \cup BadIdInputs :
             LET res == get_booking(b)
             IN res.status = 200 => res.body[1].id = b
       \/ \E m \in MovieIdInputs \cup {""} :
             \A k \in 1..Len(list_shows(m)) : list_shows(m)[k].id # ""
       \/ Len(list_movies) = Len(movie)
    /\ UNCHANGED vars

(***************************************************************************)
(* The program: requests of every endpoint, their store calls interleaved. *)
(* The clock stands still in Spec and runs in SpecAuth.                    *)
(***************************************************************************)
Step(r) ==
    \/ get_current_user_session(r)
    \/ get_current_user_user(r)
    \/ register_insert_user(r)
    \/ register_token(r)
    \/ register_expires(r)
    \/ register_insert_session(r)
    \/ login_token(r)
    \/ login_expires(r)
    \/ login_insert_session(r)
    \/ create_movie_insert(r)
    \/ create_show_movie(r)
    \/ create_show_insert(r)
    \/ create_booking_check(r)
    \/ create_booking_insert(r)
    \/ create_booking_update(r)
    \/ seed_demo_step(r)

Next ==
    \/ \E r \in Reqs, k \in AuthKinds, a \in AuthInputs :
          get_current_user_header(r, k, a)
    \/ \E r \in Reqs, n \in Names, e \in Emails, p \in Passwords :
          register_find(r, n, e, p)
    \/ \E r \in Reqs, e \in Emails, p \in LoginPasswords : login_find(r, e, p)
    \/ \E r \in Reqs, s \in ShowIdInputs \cup BadIdInputs : get_seats_call(r, s)
    \/ \E r \in Reqs : Step(r)
    \/ ReadOnly

Spec == Init /\ [][Next]_vars

SpecAuth == Init /\ [][Next \/ Tick]_vars

(***************************************************************************)
(* Scheduling.  Every handler is synchronous: the server runs it on a      *)
(* worker thread of its own, and each of its calls to the store returns.   *)
(* A request that has a next call therefore makes it.                      *)
(***************************************************************************)
Fairness == \A r \in Reqs : WF_vars(Step(r))

SpecFair == Init /\ [][Next]_vars /\ Fairness

\* The same scheduling with the clock running.  Nothing is assumed of the
\* clock: it may advance at any moment or not at all.
SpecAuthFair == Init /\ [][Next \/ Tick]_vars /\ Fairness

(***************************************************************************)
(* GET /shows/{show_id}/seats on shows of every size the schema allows.    *)
(* The store is the one left by a registration, a POST /shows with         *)
(* rows x cols seats and, when the show has booked seats, the booking that *)
(* booked them; the requests of the pool read the seat map.                *)
(***************************************************************************)
BookedLists == {<<>>, <<"A1">>, <<"B1", "A2">>, <<"T30", "Z9", "A1">>}
SeatsShowIdInputs == {"show10", "show11"}

InitSeats ==
    \E e \in Emails, n \in Names, p \in Passwords,
       rows \in MinRows..MaxRows, cols \in MinCols..MaxCols,
       price_cents \in NewShowPrices, seats \in BookedLists :
       LET uid == [c |-> "user", n |-> 1]
           sid == [c |-> "show", n |-> NumSeedShows + 1]
           sh == Show(sid, "movie1", 0, "X", price_cents, rows, cols)
       IN /\ user = <<User(uid, n, e, hash_password(p))>>
          /\ session = <<Session([c |-> "session", n |-> 1], str(uid),
                                 Token(e, 0), SessionHours)>>
          /\ movie = SeedMovies
          /\ show = Append(SeedShows, [sh EXCEPT !.seats_booked = seats])
          /\ booking = IF seats = <<>> THEN <<>>
                       ELSE <<Booking([c |-> "booking", n |-> 1], str(uid),
                                      str(sid), seats, amount_cents(seats, sh))>>
          /\ now = 0
          /\ req = [r \in Reqs |-> IdleReq]

NextSeats == \E r \in Reqs, s \in SeatsShowIdInputs : get_seats_call(r, s)

SpecSeats == InitSeats /\ [][NextSeats]_vars

(***************************************************************************)
(* Vocabulary of the properties.                                           *)
(***************************************************************************)
IsBooking(r) == req[r].kind = "create_booking"
Succeeded(r) == IsBooking(r) /\ req[r].pc = "done" /\ req[r].status = 200
\* The request was authenticated and found its show: it ran the seat check.
RanCheck(r) ==
    /\ IsBooking(r)
    /\ req[r].pc = "done"
    /\ req[r].user_id # ""
    /\ req[r].status \in {200, 400}
    /\ req[r].detail # "Invalid id"
Rejected(r) == RanCheck(r) /\ req[r].status = 400
Overlap(s, t) == Range(s) \cap Range(t) # {}
ShowDocs(show_id) == {k \in 1..Len(show) : str(show[k]._id) = show_id}
BookingsOn(show_id) == {i \in 1..Len(booking) : booking[i].show_id = show_id}
\* Every booking record of the show was inserted by a request of S.
OnlyBookedBy(S, show_id) ==
    \A i \in BookingsOn(show_id) : \E r \in S : req[r].id = str(booking[i]._id)

\* C1: no seat appears in two successful bookings of the same show, under
\* any interleaving of concurrent create_booking requests.
C1_SuccessfulBookingsDisjoint ==
    \A r1, r2 \in Reqs :
        (r1 # r2 /\ Succeeded(r1) /\ Succeeded(r2)
            /\ req[r1].show_id = req[r2].show_id)
        => ~Overlap(req[r1].seats, req[r2].seats)

\* C2: of two create_booking requests on the same show whose seat lists share
\* a seat, with no other booking on the show, exactly one succeeds and the
\* other is rejected.
C2_ExactlyOneOverlappingWins ==
    \A r1, r2 \in Reqs :
        (r1 # r2 /\ RanCheck(r1) /\ RanCheck(r2)
            /\ req[r1].show_id = req[r2].show_id
            /\ Overlap(req[r1].seats, req[r2].seats)
            /\ OnlyBookedBy({r1, r2}, req[r1].show_id))
        => (Succeeded(r1) /\ Rejected(r2)) \/ (Rejected(r1) /\ Succeeded(r2))

\* C3: in every reachable state every booking record has all its seats in its
\* show's seats_booked, and every seat in seats_booked is in some booking
\* record of that show.
C3_NoPartialCommitVisible ==
    /\ \A i \in 1..Len(booking) :
          \E k \in ShowDocs(booking[i].show_id) :
              Range(booking[i].seats) \subseteq Range(show[k].seats_booked)
    /\ \A k \in 1..Len(show) :
          \A s \in Range(show[k].seats_booked) :
              \E i \in BookingsOn(str(show[k]._id)) : s \in Range(booking[i].seats)

\* C4: when the requests of a set S have all finished, all ran on the same
\* show with pairwise disjoint seat lists and nothing else was booked on that
\* show, then all of them succeeded and the show's seats_booked is the union
\* of their seat lists.
C4_DisjointRequestsAllSucceed ==
    \A S \in SUBSET Reqs : \A k \in 1..Len(show) :
        (/\ S # {}
         /\ \A r \in S : RanCheck(r) /\ req[r].show_id = str(show[k]._id)
         /\ \A r1, r2 \in S : r1 # r2 => ~Overlap(req[r1].seats, req[r2].seats)
         /\ OnlyBookedBy(S, str(show[k]._id)))
        => /\ \A r \in S : Succeeded(r)
           /\ Range(show[k].seats_booked) = UNION {Range(req[r].seats) : r \in S}

\* Two requests with disjoint seat lists both succeeded on one show, and they
\* overlapped in time: the one that inserted its booking first updated the
\* show last.
C4_Witness ==
    \E r1, r2 \in Reqs : \E k \in 1..Len(show) :
        /\ r1 # r2 /\ Succeeded(r1) /\ Succeeded(r2)
        /\ req[r1].show_id = str(show[k]._id)
        /\ req[r2].show_id = str(show[k]._id)
        /\ req[r1].seats # <<>> /\ req[r2].seats # <<>>
        /\ ~Overlap(req[r1].seats, req[r2].seats)
        /\ Len(booking) = 2 /\ req[r1].id = str(booking[1]._id)
        /\ show[k].seats_booked[1] \in Range(req[r2].seats)

\* C5: the step in which a request reads a show that has one of its seats
\* booked ends the request with status 400 and changes neither the bookings
\* nor any show; a finished request does nothing more.
C5_BookedSeatRejectedNoEffect ==
    [][\A r \in Reqs :
          /\ (/\ req[r].pc = "check" /\ req'[r].pc # "check"
              /\ \E k \in ShowDocs(req[r].show_id) :
                    Overlap(req[r].seats, show[k].seats_booked))
             => /\ req'[r].pc = "done"
                /\ req'[r].status = 400
                /\ req'[r].id = ""
                /\ booking' = booking
                /\ show' = show
          /\ req[r].pc = "done" => req'[r] = req[r]]_vars

\* The scenario of the specification: A1, A2 are booked, the later request
\* for A2, B1 was rejected naming A2, and booked is still exactly A1, A2.
C5_Witness ==
    \E r \in Reqs : \E k \in ShowDocs(req[r].show_id) :
        /\ req[r].pc = "done" /\ req[r].status = 400
        /\ req[r].seats = <<"A2", "B1">>
        /\ req[r].detail = "Seat A2 already booked"
        /\ show[k].seats_booked = <<"A1", "A2">>
        /\ Len(booking) = 1

\* C6: a request with an empty seat list creates no booking record and does
\* not succeed.
C6_EmptySeatListRejected ==
    /\ \A i \in 1..Len(booking) : booking[i].seats # <<>>
    /\ \A r \in Reqs : Succeeded(r) => req[r].seats # <<>>

\* C7: every entry of a show's seats_booked is a seat identifier of the show's
\* own grid.
C7_BookedSeatsInGrid ==
    \A k \in 1..Len(show) :
        Range(show[k].seats_booked) \subseteq GridSeats(show[k].rows, show[k].cols)

\* C8: the step in which a request looks up a well-formed show id that no show
\* document has ends the request with 404 and changes neither the bookings
\* nor any show.
C8_UnknownShowNotFound ==
    [][\A r \in Reqs :
          (/\ req[r].pc = "check" /\ req'[r].pc # "check"
           /\ ValidOid(req[r].show_id)
           /\ ShowDocs(req[r].show_id) = {})
          => /\ req'[r].pc = "done"
             /\ req'[r].status = 404
             /\ req'[r].detail = "Show not found"
             /\ req'[r].id = ""
             /\ booking' = booking
             /\ show' = show]_vars

\* An authenticated request for show10 was answered 404 and nothing was booked.
C8_Witness ==
    \E r \in Reqs :
        /\ req[r].pc = "done" /\ req[r].status = 404
        /\ req[r].show_id = "show10" /\ req[r].seats = <<"A1">>
        /\ booking = <<>>

\* C9: for every successful request the amount returned, and the amount of
\* the booking record it inserted, are the length of the submitted seat list
\* times the show's price_cents.
C9_AmountIsCountTimesPrice ==
    \A r \in Reqs :
        Succeeded(r) =>
            /\ ShowDocs(req[r].show_id) # {}
            /\ \A k \in ShowDocs(req[r].show_id) :
                  req[r].amount = Len(req[r].seats) * show[k].price_cents
            /\ \E i \in 1..Len(booking) :
                  /\ str(booking[i]._id) = req[r].id
                  /\ booking[i].seats = req[r].seats
                  /\ booking[i].amount_cents = req[r].amount

\* Two seats of the first seeded show (1299 each) were booked for 2598.
C9_Witness ==
    \E r \in Reqs :
        /\ Succeeded(r) /\ req[r].show_id = "show1"
        /\ Len(req[r].seats) = 2 /\ req[r].amount = 2598

\* C10: in every step each show's seats_booked keeps all its entries, a new
\* show starts with none, and a step that changes a seats_booked is the seat
\* update of a create_booking request.
C10_SeatsBookedOnlyGrows ==
    [][/\ Len(show) <= Len(show')
       /\ \A k \in 1..Len(show) :
             k <= Len(show') =>
                Range(show[k].seats_booked) \subseteq Range(show'[k].seats_booked)
       /\ \A k \in 1..Len(show') :
             k > Len(show) => show'[k].seats_booked = <<>>
       /\ (\E k \in 1..Len(show) :
              k <= Len(show') /\ show'[k].seats_booked # show[k].seats_booked)
          => \E r \in Reqs : req[r].pc = "update" /\ req'[r].pc = "done"]_vars

\* A show's seats_booked has grown twice: it holds the seats of two bookings.
C10_Witness ==
    \E k \in 1..Len(show) :
        /\ Len(show[k].seats_booked) = 3
        /\ Cardinality(BookingsOn(str(show[k]._id))) = 2

\* C11: for a show with rows in 1..20 and cols in 1..30, the layout get_seats
\* returns has rows rows of cols seats, its rows*cols seat identifiers are
\* pairwise distinct, the rows come in ascending order A, B, C, ... and the
\* seats of a row in ascending column order 1, 2, ..., cols.
C11_GridCompleteDistinctOrdered ==
    \A q \in Reqs :
      (req[q].kind = "get_seats" /\ req[q].status = 200) =>
        LET L == req[q].layout
        IN /\ req[q].rows \in MinRows..MaxRows /\ req[q].cols \in MinCols..MaxCols
           /\ Len(L) = req[q].rows
           /\ \A r \in 1..Len(L) :
                 /\ Len(L[r].seats) = req[q].cols
                 /\ L[r].row = Letters[r]
                 /\ \A c \in 1..Len(L[r].seats) :
                       L[r].seats[c].id = Letters[r] \o ToString(c)
           /\ Cardinality(UNION {{L[r].seats[c].id : c \in 1..Len(L[r].seats)} :
                                    r \in 1..Len(L)})
                = req[q].rows * req[q].cols
\* The largest grid was read: 20 rows of 30 seats, the last one T30.
C11_Witness ==
    \E q \in Reqs :
        /\ req[q].kind = "get_seats" /\ req[q].status = 200
        /\ req[q].rows = MaxRows /\ req[q].cols = MaxCols
        /\ Len(req[q].layout) = MaxRows
        /\ req[q].layout[MaxRows].seats[MaxCols].id = "T30"
        /\ req[q].layout[2].seats[11].id = "B11"

\* C12: in the layout a read returns, the booked flag of a seat is true
\* exactly when its identifier is in the seats_booked the show had when the
\* read was made, and the read leaves every collection of the store as it was.
C12_FlagsMatchStoreAndReadOnly ==
    [][\A q \in Reqs :
         (req[q].pc = "idle" /\ req'[q].kind = "get_seats") =>
           /\ store' = store
           /\ req'[q].pc = "done"
           /\ req'[q].status = 200 =>
                 \E k \in 1..Len(show) :
                    /\ str(show[k]._id) = req'[q].show_id
                    /\ \A r \in 1..Len(req'[q].layout) :
                          \A c \in 1..Len(req'[q].layout[r].seats) :
                             LET seat == req'[q].layout[r].seats[c]
                             IN seat.booked <=>
                                  \E i \in 1..Len(show[k].seats_booked) :
                                     show[k].seats_booked[i] = seat.id]_vars
\* A read of the first seeded show, made after a booking that holds A1 had
\* finished, found A1 booked and A2 free.
C12_Witness ==
    \E q, r \in Reqs :
        /\ req[q].kind = "get_seats" /\ req[q].status = 200
        /\ req[q].show_id = "show1"
        /\ Succeeded(r) /\ req[r].show_id = "show1"
        /\ req[q].layout[1].seats[1].booked
        /\ ~req[q].layout[1].seats[2].booked
        /\ \E k \in ShowDocs("show1") : "A1" \in Range(show[k].seats_booked)

\* The tokens a request can carry that no session ever makes valid unless a
\* session with that token is in the store before it expires.
Tokens == {token_of(a) : a \in {h \in AuthInputs : startswith_bearer(h)}}
\* The store holds a session with this token that has not expired.
Unexpired(tk) ==
    \E i \in 1..Len(session) :
        session[i].token = tk /\ session[i].expires_at > now
\* The request has passed the session lookup of get_current_user.
Authenticated(r) ==
    IsBooking(r) /\ req[r].pc \in {"auth_user", "check", "insert", "update"}

\* C13: a create_booking request with no credential, a malformed one, or a
\* token with no unexpired session is rejected with 401 before any booking
\* logic runs.  A request that arrives without a well-formed credential
\* (it has no token) ends at once with 401, the store unchanged; and a
\* request whose token has, throughout the behaviour, no unexpired session
\* in the store never passes the session lookup.
C13_UnauthenticatedRejectedNoEffect ==
    /\ [][\A r \in Reqs :
            (req[r].pc = "idle" /\ req'[r].kind = "create_booking"
                                /\ req'[r].token = "")
               => /\ req'[r].pc = "done" /\ req'[r].status = 401
                  /\ req'[r].id = ""
                  /\ store' = store]_vars
    /\ \A tk \in Tokens :
          ([]~Unexpired(tk))
             => [](\A r \in Reqs : req[r].token = tk => ~Authenticated(r))

\* C14: when create_booking rejects a request for a seat conflict, the seat
\* its error names is the first seat, in the order submitted, that is in the
\* seats_booked the show had when the request read it: no seat submitted
\* before it is in that set, whatever the seats after it are.
C14_ConflictNamesFirstBookedSeat ==
    [][\A r \in Reqs :
         (req[r].pc = "check" /\ req'[r].pc = "done"
            /\ req'[r].status = 400 /\ req'[r].detail # "Invalid id")
         => \E s \in ShowDocs(req[r].show_id) :
              \E k \in 1..Len(req[r].seats) :
                 /\ req'[r].detail = "Seat " \o req[r].seats[k] \o " already booked"
                 /\ \E i \in 1..Len(show[s].seats_booked) :
                       show[s].seats_booked[i] = req[r].seats[k]
                 /\ \A j \in 1..(k - 1) :
                       \A i \in 1..Len(show[s].seats_booked) :
                          show[s].seats_booked[i] # req[r].seats[j]]_vars
\* A request for A1, A2 rejected when both were booked: the error names A1.
C14_Witness ==
    \E r \in Reqs, s \in ShowDocs("show1") :
        /\ req[r].pc = "done" /\ req[r].status = 400
        /\ req[r].show_id = "show1"
        /\ req[r].seats = <<"A1", "A2">>
        /\ req[r].detail = "Seat A1 already booked"
        /\ {"A1", "A2"} \subseteq Range(show[s].seats_booked)

HasDuplicate(seats) ==
    \E i, j \in 1..Len(seats) : i # j /\ seats[i] = seats[j]

\* C15: a request that names a free seat more than once is accepted; its
\* booking record keeps the list as submitted, duplicates included, its
\* amount counts every occurrence, and the seat enters seats_booked once:
\* no seats_booked ever holds a seat twice.
C15_DuplicateSeatsAcceptedStoredOnce ==
    [][/\ \A k \in 1..Len(show') : ~HasDuplicate(show'[k].seats_booked)
       /\ \A r \in Reqs : (HasDuplicate(req[r].seats) /\ req'[r] # req[r]) =>
            \A s \in ShowDocs(req[r].show_id) :
               /\ (req[r].pc = "check"
                     /\ Range(req[r].seats) \cap Range(show[s].seats_booked) = {})
                  => /\ req'[r].pc = "insert"
                     /\ req'[r].amount = Len(req[r].seats) * show[s].price_cents
               /\ req[r].pc = "insert"
                  => /\ req'[r].pc = "update"
                     /\ Len(booking') = Len(booking) + 1
                     /\ booking'[Len(booking')].seats = req[r].seats
                     /\ booking'[Len(booking')].amount_cents
                          = Len(req[r].seats) * show[s].price_cents
               /\ req[r].pc = "update"
                  => /\ req'[r].pc = "done" /\ req'[r].status = 200
                     /\ \A x \in Range(req[r].seats) :
                          Cardinality({i \in 1..Len(show'[s].seats_booked) :
                                         show'[s].seats_booked[i] = x}) = 1]_vars
\* The request for A1, A1 succeeded: the booking holds A1 twice at twice the
\* price, seats_booked holds A1 once.
C15_Witness ==
    \E r \in Reqs, i \in 1..Len(booking), s \in ShowDocs("show1") :
        /\ Succeeded(r)
        /\ req[r].seats = <<"A1", "A1">>
        /\ req[r].id = str(booking[i]._id)
        /\ booking[i].seats = <<"A1", "A1">>
        /\ booking[i].amount_cents = 2 * show[s].price_cents
        /\ show[s].price_cents > 0
        /\ show[s].seats_booked = <<"A1">>

\* C16: a create_booking request that succeeds has inserted exactly one
\* booking record, with status 'confirmed'; a request that is rejected has
\* inserted none; and no step of any operation changes or removes a booking
\* record that exists: the collection only grows, one record at a time.
C16_OneConfirmedRecordPerSuccess ==
    [][/\ Len(booking') \in {Len(booking), Len(booking) + 1}
       /\ \A i \in 1..Len(booking) : booking'[i] = booking[i]
       /\ \A i \in 1..Len(booking') : booking'[i].status = "confirmed"
       /\ \A r \in Reqs :
            /\ (req'[r].kind = "create_booking"
                  /\ req'[r].pc = "done" /\ req'[r].status = 200)
               => Cardinality({i \in 1..Len(booking') :
                                 str(booking'[i]._id) = req'[r].id}) = 1
            /\ (req'[r].kind = "create_booking"
                  /\ req'[r].pc = "done" /\ req'[r].status # 200)
               => /\ req'[r].id = ""
                  /\ (req[r].pc # "done" => booking' = booking)
       /\ Len(booking') = Cardinality({r \in Reqs :
              req'[r].kind = "create_booking" /\ req'[r].id # ""})]_vars
\* One request succeeded and one was rejected for a conflict: one record.
C16_Witness ==
    \E r1, r2 \in Reqs :
        /\ Succeeded(r1) /\ Rejected(r2)
        /\ Len(booking) = 1
        /\ req[r1].id = str(booking[1]._id)
        /\ booking[1].status = "confirmed"
        /\ req[r2].id = ""

\* The order in which a request moves through the handler.
StepsForward ==
    {<<"idle", "auth_session">>, <<"idle", "done">>,
     <<"auth_session", "auth_user">>, <<"auth_session", "done">>,
     <<"auth_user", "check">>, <<"auth_user", "done">>, <<"check", "insert">>, <<"check", "done">>,
     <<"insert", "update">>, <<"update", "done">>}

\* C17: every create_booking request terminates.  Under fair scheduling a
\* request that has arrived eventually ends with exactly one outcome
\* (success, not found, conflict or another error); its next call is enabled
\* whatever the other requests are doing, so it waits for none of them; and
\* it only moves forward through the handler, never back for a retry.
C17_EveryRequestTerminates ==
    /\ \A r \in Reqs :
          (IsBooking(r) /\ req[r].pc # "idle")
             ~> (req[r].pc = "done" /\ req[r].status \in {200, 400, 401, 404})
    /\ [](\A r \in Reqs :
            /\ (IsBooking(r) /\ req[r].pc = "auth_session")
                  => ENABLED get_current_user_session(r)
            /\ (IsBooking(r) /\ req[r].pc = "auth_user")
                  => ENABLED get_current_user_user(r)
            /\ req[r].pc = "check" => ENABLED create_booking_check(r)
            /\ req[r].pc = "insert" => ENABLED create_booking_insert(r)
            /\ req[r].pc = "update" => ENABLED create_booking_update(r))
    /\ [][\A r \in Reqs :
            (req'[r].kind = "create_booking" /\ req'[r].pc # req[r].pc)
               => <<req[r].pc, req'[r].pc>> \in StepsForward]_vars
\* Both requests ended, one with success and one with a conflict, after
\* running at the same time (the second arrived before the first inserted).
C17_Witness ==
    \E r1, r2 \in Reqs :
        /\ r1 # r2
        /\ Succeeded(r1) /\ Rejected(r2)
        /\ req[r1].show_id = req[r2].show_id

Quiescent == \A r \in Reqs : IsBooking(r) => req[r].pc = "done"

\* C18: whenever no create_booking request is in progress, the seats_booked
\* of each show is exactly the set of the seats of all the booking records
\* made for that show.
C18_QuiescentSeatsEqualBookings ==
    Quiescent =>
        \A k \in 1..Len(show) :
            Range(show[k].seats_booked)
              = UNION {Range(booking[i].seats) : i \in BookingsOn(str(show[k]._id))}
\* Two bookings on one show have finished and the other shows have none.
C18_Witness ==
    /\ Quiescent
    /\ Len(booking) = 2
    /\ booking[1].show_id = "show1" /\ booking[2].show_id = "show1"
    /\ booking[1].seats # booking[2].seats
    /\ \E k \in 1..Len(show) :
          str(show[k]._id) = "show1" /\ Len(show[k].seats_booked) >= 2
    /\ \E k \in 1..Len(show) :
          str(show[k]._id) = "show2" /\ show[k].seats_booked = <<>>

\* C19: a request that reads the show after a successful create_booking on
\* the same show has finished its seat update, and whose list shares a seat
\* with that booking, is rejected with the conflict error; this holds at
\* every later read, however long after the booking.
C19_LaterOverlappingRequestRejected ==
    [][\A r, q \in Reqs :
         (/\ r # q
          /\ Succeeded(q)
          /\ req[r].pc = "check" /\ req'[r].pc # "check"
          /\ req[r].show_id = req[q].show_id
          /\ Overlap(req[r].seats, req[q].seats))
         => /\ req'[r].pc = "done"
            /\ req'[r].status = 400
            /\ \E x \in Range(req[r].seats) :
                  req'[r].detail = "Seat " \o x \o " already booked"
            /\ req'[r].id = ""
            /\ store' = store]_vars
\* A1, A2 was booked; the request for A2, B1 that read the show afterwards
\* was rejected for A2 (the only booking record is the first request's).
C19_Witness ==
    \E q, r \in Reqs :
        /\ Succeeded(q) /\ req[q].seats = <<"A1", "A2">>
        /\ Rejected(r) /\ req[r].seats = <<"A2", "B1">>
        /\ req[r].show_id = req[q].show_id
        /\ req[r].detail = "Seat A2 already booked"
        /\ Len(booking) = 1 /\ req[q].id = str(booking[1]._id)

\* C20: under any interleaving of concurrent register requests the user
\* collection never holds two records with the same email, and of the
\* registrations for one email at most one succeeds.
C20_EmailRegisteredOnce ==
    /\ \A i, j \in 1..Len(user) : i # j => user[i].email # user[j].email
    /\ \A g, h \in Reqs :
          (g # h /\ req[g].kind = "register" /\ req[h].kind = "register"
                 /\ req[g].pc = "done" /\ req[g].status = 200
                 /\ req[h].pc = "done" /\ req[h].status = 200)
          => req[g].email # req[h].email

====
